---- MODULE Spec2Model ----
(***************************************************************************)
(* State-machine model of the StoredSafe lookup plugin (src/storedsafe.py). *)
(* Each invocation of LookupModule.run is a process; the processes share    *)
(* the lock file UPDATE_LOCK_FILE.  One action per step of run,             *)
(* _get_url_and_token and _update_token; the HTTP server, the rc file and   *)
(* the refresh script are the environment, drawn from small sets.           *)
(***************************************************************************)
EXTENDS Naturals, Integers, Sequences, FiniteSets, TLC

\* ------------------------------------------------------------- bounds
NumProcs == 2          \* invocations that may run concurrently
MaxTerms == 2          \* longest list of terms handed to run

\* --------------------------------------------------- program constants
MAX_RETRIES == 5
\* Parameters of _get_url_and_token besides self, and the arguments the two
\* calls in run pass.
ParamsOfGetUrlAndToken == 0
ArgsAtLine115 == 0
ArgsAtLine135 == 1

Procs == 1..NumProcs

None == "None"         \* Python's None, also returned by a function that
                       \* falls off its end

\* ------------------------------------------------------------- inputs
\* A term "<objectid>/<fieldname>" after term.split('/', 1).
Terms ==
  { [objectid |-> "100", fieldname |-> "username"],
    [objectid |-> "100", fieldname |-> "password"],
    [objectid |-> "200", fieldname |-> "download"] }

RECURSIVE SeqsUpTo(_, _)
SeqsUpTo(S, n) ==
  IF n = 0 THEN { <<>> }
  ELSE LET shorter == SeqsUpTo(S, n - 1)
       IN  shorter \cup { Append(s, x) : s \in { t \in shorter : Len(t) = n - 1 }, x \in S }

TermLists == SeqsUpTo(Terms, MaxTerms)

\* Text values are sequences of characters.
Whitespace == { " ", "\n", "\t" }

\* str.rstrip(): drop the trailing whitespace.
RECURSIVE rstrip(_)
rstrip(s) ==
  IF s = <<>> THEN <<>>
  ELSE IF s[Len(s)] \in Whitespace THEN rstrip(SubSeq(s, 1, Len(s) - 1))
  ELSE s

\* base64.b64decode on the blobs the modelled vault serves.
b64decode(b) ==
  CASE b = "YQ==" -> << "a" >>
    [] b = "Yg0K" -> << "b", "\n" >>
    [] b = "IAo=" -> << " ", "\n" >>
    [] OTHER      -> <<>>

\* The JSON bodies the vault answers GET /object/<id> with, seen through the
\* requested field: crypted, public and top are data['OBJECT'][0]["crypted"]
\* [fieldname], ["public"][fieldname] and [fieldname], each the empty set when
\* the key is missing and {value} otherwise; filedata likewise for
\* data['FILEDATA'].
Body(hasObject, n, crypted, public, top, filedata) ==
  [ hasObject |-> hasObject, nObjects |-> n, crypted |-> crypted,
    public |-> public, top |-> top, filedata |-> filedata ]

\* What the vault may hold for a term: the bodies of its successful answers.
Vault(term) ==
  CASE term.fieldname = "username" ->
         { Body(TRUE, 1, {}, { << "a", "l", " " >> }, {}, {}),
           Body(TRUE, 1, {}, {}, { << "x" >> }, {}) }
    [] term.fieldname = "password" ->
         { Body(TRUE, 1, { << "s", "3", "\n" >> }, { << "p" >> }, { << "q" >> }, {}),
           Body(TRUE, 1, { << " ", "\t" >> }, {}, {}, {}),
           Body(TRUE, 1, {}, {}, {}, {}),
           Body(TRUE, 0, {}, {}, {}, {}),
           Body(FALSE, 0, {}, {}, {}, {}) }
    [] OTHER ->
         { Body(TRUE, 1, {}, {}, {}, { "YQ==" }),
           Body(TRUE, 1, { << "d" >> }, {}, {}, { "Yg0K" }),
           Body(TRUE, 1, { << "d" >> }, {}, {}, {}),
           Body(TRUE, 1, {}, {}, {}, { "" }) }

StatusCodes == { 200, 403, 404, 500 }

TheOne(S) == CHOOSE x \in S : TRUE

\* _get_item, lines 245-273, on an answer with the given status and body.
\* item starts as False (here <<>>: "not item" treats both alike).
get_item(status, body, fieldname) ==
  IF status >= 400
  THEN [ raised |-> FALSE, status |-> status, item |-> <<>> ]
  ELSE
    LET fromMaps ==
          IF body.hasObject /\ body.nObjects > 0
          THEN IF body.crypted # {} THEN TheOne(body.crypted)
               ELSE IF body.public # {} THEN TheOne(body.public)
               ELSE IF body.top # {} THEN TheOne(body.top)
               ELSE <<>>
          ELSE <<>>
        item ==
          IF body.hasObject /\ fieldname = "download" /\ body.filedata # {}
             /\ TheOne(body.filedata) # ""
          THEN b64decode(TheOne(body.filedata))
          ELSE fromMaps
    IN  IF item = <<>>
        THEN [ raised |-> TRUE, status |-> status, item |-> <<>> ]
        ELSE [ raised |-> FALSE, status |-> status, item |-> item ]

\* ------------------------------------------------------ configuration
\* "not a" on values that are None or strings.
Falsy(a) == a = None \/ a = ""

\* "b or a" for "a or b".
PyOrSecondFirst(a, b) == IF b # None /\ b # "" THEN b ELSE a

\* "a or b" on values that are None or strings.
PyOr(a, b) == IF a # None /\ a # "" THEN a ELSE b

Cfg(es, vs, et, rs, rt, esc, vsc) ==
  [ envServer |-> es, varServer |-> vs, envToken |-> et, rcServer |-> rs,
    rcToken |-> rt, envScript |-> esc, varScript |-> vsc ]

\* The environments a run is started in: the STOREDSAFE_* environment
\* variables, the storedsafe_* Ansible variables and what _read_rc returns.
Configs ==
  { Cfg("vault", None, "tok", None, None, None, None),
    Cfg("vault", None, "tok", None, None, "/missing.sh", None),
    Cfg("vault", None, "tok", None, None, "/login.sh", None),
    Cfg(None, "vault", None, None, None, None, "/login.sh"),
    Cfg(None, "vault", None, None, None, None, None),
    Cfg(None, None, "tok", "vault", "rctok", None, "/login.sh"),
    Cfg(None, None, None, "vault", "rctok", None, None),
    Cfg(None, None, None, "vault", None, "/missing.sh", "/login.sh"),
    Cfg(None, None, "tok", None, None, "/login.sh", None) }

\* os.path.exists on the script paths above.
PathExists(path) == path = "/login.sh"

\* The token taken from the environment first and from the rc file second,
\* whatever gave the server.
resolvePerField(cfg) ==
  LET server0 == PyOr(cfg.envServer, cfg.varServer)
      script  == PyOr(cfg.envScript, cfg.varScript)
      server  == IF Falsy(server0) THEN cfg.rcServer ELSE server0
      token   == PyOr(cfg.envToken, cfg.rcToken)
  IN  IF Falsy(server)
      THEN [ error |-> "AnsibleError: address not set", server |-> None,
             token |-> None, script |-> script ]
      ELSE IF Falsy(token) /\ Falsy(script)
      THEN [ error |-> "AnsibleError: token not set", server |-> server,
             token |-> None, script |-> script ]
      ELSE [ error |-> None, server |-> server, token |-> token,
             script |-> script ]

\* _get_url_and_token, lines 151-174: the server, the token and the update
\* script, or the AnsibleError raised.
resolve(cfg) ==
  LET server0 == PyOr(cfg.envServer, cfg.varServer)
      script  == PyOr(cfg.envScript, cfg.varScript)
      server  == IF Falsy(server0) THEN cfg.rcServer ELSE server0
      token   == IF Falsy(server0) THEN cfg.rcToken ELSE cfg.envToken
  IN  IF Falsy(server)
      THEN [ error |-> "AnsibleError: address not set", server |-> None,
             token |-> None, script |-> script ]
      ELSE IF Falsy(token) /\ Falsy(script)
      THEN [ error |-> "AnsibleError: token not set", server |-> server,
             token |-> None, script |-> script ]
      ELSE [ error |-> None, server |-> server, token |-> token,
             script |-> script ]

\* ---------------------------------------------------------- auth check
\* What the server does with POST /auth/check.
AuthOutcomes == { "unreachable", "not_ok", "ok_success", "ok_other" }

\* _auth_check, lines 288-309: the value returned or the error raised.  The
\* function has no return statement after the status test: an accepted token
\* makes it fall off its end and return None.
auth_check(outcome) ==
  CASE outcome = "unreachable" -> [ raised |-> "AnsibleError: can not reach", value |-> None ]
    [] outcome = "not_ok"      -> [ raised |-> None, value |-> "False" ]
    [] outcome = "ok_other"    -> [ raised |-> "AnsibleError: not authenticated", value |-> None ]
    [] OTHER                   -> [ raised |-> None, value |-> None ]

\* "not self._auth_check(url, token)", line 177.
NotAuthenticated(value) == value = "False" \/ value = None

\* --------------------------------------------------------------- state
VARIABLES
  lock,                 \* os.path.isfile(UPDATE_LOCK_FILE)
  pc,                   \* where each invocation is
  terms,                \* the terms run was called with
  idx,                  \* the term the for loop of run is at (0: none yet)
  result,               \* result, the list run builds
  retries,              \* self.retries
  update_token_script,  \* the resolved update script path
  session,              \* the (url, token) in use: 0 from the configuration,
                        \* n after the n-th re-read of the rc file
  caller,               \* the line of run that called _get_url_and_token
  exc,                  \* what leaves the try block of lines 182-190
  error,                \* the exception run ended with
  retval,               \* what run returned: {} while it has not returned
  hist,                 \* observations of each run, for the properties
  input,                \* the arguments of a function applied on its own
  output                \* and what it returned

vars == << lock, pc, terms, idx, result, retries, update_token_script,
           session, caller, exc, error, retval, hist, input, output >>

Set(f, p, v) == [ f EXCEPT ![p] = v ]

NoHist ==
  [ scriptRuns |-> 0,      \* executions of the update script
    fetches |-> 0,         \* GET /object requests
    refetches |-> 0,       \* those for a term that was fetched before
    termFetches |-> 0,     \* those for the current term
    nonzero |-> 0,         \* executions that ended with a nonzero exit code
    authChecks |-> 0,      \* POST /auth/check requests
    lastAuth |-> "none",   \* what the server did with the last of them
    checked |-> {},        \* sessions the server accepted in an auth check
    fetchedWith |-> {},    \* sessions GET /object was sent with
    lastOutcome |-> "none",\* FetchOutcome of the last fetch
    raw |-> <<>>,          \* the items the successful fetches extracted
    waited |-> FALSE,      \* has slept waiting for the lock file
    created |-> FALSE,     \* has created the lock file, cleanup not yet done
    locksCreated |-> 0 ]   \* times it has created the lock file

\* No function is applied on its own.
Nothing == [ fn |-> "none" ]

\* The invocations in `active` are about to call run with terms of `lists`.
InitRuns(active, lists) ==
  /\ pc = [ p \in Procs |-> IF p \in active THEN "run" ELSE "off" ]
  /\ terms \in [ Procs -> lists ]
  /\ \A p \in Procs \ active : terms[p] = <<>>
  /\ idx = [ p \in Procs |-> 0 ]
  /\ result = [ p \in Procs |-> <<>> ]
  /\ retries = [ p \in Procs |-> 0 ]
  /\ update_token_script = [ p \in Procs |-> None ]
  /\ session = [ p \in Procs |-> 0 ]
  /\ caller = [ p \in Procs |-> 115 ]
  /\ exc = [ p \in Procs |-> None ]
  /\ error = [ p \in Procs |-> None ]
  /\ retval = [ p \in Procs |-> {} ]
  /\ hist = [ p \in Procs |-> NoHist ]

InitFor(active, lists) ==
  /\ lock = FALSE
  /\ InitRuns(active, lists)
  /\ input = Nothing
  /\ output = Nothing

\* One invocation, nothing else touching the lock file.
Init == InitFor({1}, TermLists)

\* -------------------------------------------------------- control flow
\* A call with the wrong number of positional arguments raises TypeError.
CallRaisesTypeError(nargs) == nargs # ParamsOfGetUrlAndToken

\* The exception the caller of run sees when e is raised under the call of
\* _get_url_and_token made at line `from`: the call at line 135 is inside
\* the try of lines 125-141, whose bare except turns everything into one
\* AnsibleError.
Surfaced(e, from) ==
  IF from = 135 THEN "AnsibleError: failed to retrieve" ELSE e

\* The loop test with <= for <.
RetryLoopGuardOffByOne(r) == r <= MAX_RETRIES

\* "while self.retries < MAX_RETRIES", lines 124 and 178.
RetryLoopGuard(r) == r < MAX_RETRIES

\* "if self.retries == MAX_RETRIES", line 144.
RetriesExhausted(r) == r = MAX_RETRIES

\* An except clause that catches the timeout only.
CaughtOnlyTimeout(e) == e = "TokenUpdateTimeoutError"

\* An except clause that catches every exception.
CaughtAll(e) == TRUE

\* The except clause of line 186.
Caught(e) == e \in { "TokenUpdateTimeoutError", "TokenUpdateFailedError" }

\* Where run continues when _get_url_and_token returns: the for loop after
\* line 115, line 142 and the while test after line 135.
ReturnPc(from) == IF from = 135 THEN "while_test" ELSE "for_term"
ReturnRetries(r, from) == IF from = 135 THEN r + 1 ELSE r

\* Going back to the auth check with the new url and token.
AfterRefreshPcRecheck(from) == "auth_check"

\* Where _get_url_and_token goes after a successful _update_token, lines
\* 183-185: it returns the new url and token.
AfterRefreshPc(from) == ReturnPc(from)

\* Lines 144-146 and the next round of the for loop, after the while loop
\* of a term ended.
AfterWhilePc(r) == IF RetriesExhausted(r) THEN "failed" ELSE "for_term"
AfterWhileError(r, e) ==
  IF RetriesExhausted(r) THEN "AnsibleError: token rejected" ELSE e

\* ------------------------------------------------------------- actions
\* Entering _get_url_and_token from line `from` in environment cfg, lines
\* 151-174, up to the auth check.
Enter(p, cfg, from) ==
  LET r == resolve(cfg)
  IN  /\ caller' = Set(caller, p, from)
      /\ update_token_script' = Set(update_token_script, p, r.script)
      /\ session' = Set(session, p, 0)
      /\ pc' = Set(pc, p, IF r.error = None THEN "auth_check" ELSE "failed")
      /\ error' = Set(error, p,
                      IF r.error = None THEN error[p] ELSE Surfaced(r.error, from))

\* run, lines 96-115: reset the state and call _get_url_and_token.
RunBegin(p) ==
  /\ pc[p] = "run"
  /\ retries' = Set(retries, p, 0)
  /\ result' = Set(result, p, <<>>)
  /\ \E cfg \in Configs :
       IF CallRaisesTypeError(ArgsAtLine115)
       THEN /\ pc' = Set(pc, p, "failed")
            /\ error' = Set(error, p, "TypeError")
            /\ UNCHANGED << caller, update_token_script, session >>
       ELSE Enter(p, cfg, 115)
  /\ UNCHANGED << lock, terms, idx, exc, retval, hist >>
  /\ UNCHANGED << input, output >>

\* Line 177: the auth check and the branch on its result.
AuthCheck(p) ==
  /\ pc[p] = "auth_check"
  /\ \E o \in AuthOutcomes :
       LET r == auth_check(o)
       IN  /\ hist' = Set(hist, p,
                 [ hist[p] EXCEPT
                     !.authChecks = @ + 1,
                     !.lastAuth = o,
                     !.checked = IF o = "ok_success" THEN @ \cup { session[p] } ELSE @ ])
           /\ IF r.raised # None
              THEN /\ pc' = Set(pc, p, "failed")
                   /\ error' = Set(error, p, Surfaced(r.raised, caller[p]))
                   /\ UNCHANGED retries
              ELSE IF NotAuthenticated(r.value)
              THEN /\ pc' = Set(pc, p, "loop_test")
                   /\ UNCHANGED << error, retries >>
              ELSE /\ pc' = Set(pc, p, ReturnPc(caller[p]))
                   /\ retries' = Set(retries, p, ReturnRetries(retries[p], caller[p]))
                   /\ UNCHANGED error
  /\ UNCHANGED << lock, terms, idx, result, update_token_script, session,
                  caller, exc, retval >>
  /\ UNCHANGED << input, output >>

\* The test of the refresh loop with the checks of the script path
\* (lines 200-209) made before the wait for the lock file.
LoopTestChecksScript(p) ==
  /\ pc[p] = "loop_test"
  /\ IF update_token_script[p] = None \/ ~PathExists(update_token_script[p])
     THEN /\ pc' = Set(pc, p, "failed")
          /\ error' = Set(error, p, Surfaced("TokenUpdateScriptNotFoundError", caller[p]))
     ELSE IF RetryLoopGuard(retries[p])
     THEN /\ pc' = Set(pc, p, "wait_lock")
          /\ UNCHANGED error
     ELSE /\ pc' = Set(pc, p, "failed")
          /\ error' = Set(error, p, Surfaced("TokenUpdateFailedError", caller[p]))
  /\ UNCHANGED << lock, terms, idx, result, retries, update_token_script,
                  session, caller, exc, retval, hist >>
  /\ UNCHANGED << input, output >>

\* Lines 178 and 192-193: the test of the refresh loop.
LoopTest(p) ==
  /\ pc[p] = "loop_test"
  /\ IF RetryLoopGuard(retries[p])
     THEN /\ pc' = Set(pc, p, "wait_lock")
          /\ UNCHANGED error
     ELSE /\ pc' = Set(pc, p, "failed")
          /\ error' = Set(error, p, Surfaced("TokenUpdateFailedError", caller[p]))
  /\ UNCHANGED << lock, terms, idx, result, retries, update_token_script,
                  session, caller, exc, retval, hist >>
  /\ UNCHANGED << input, output >>

\* A wait that gives up: finding the lock file counts as a failed attempt.
WaitLockCounted(p) ==
  /\ pc[p] = "wait_lock"
  /\ IF lock
     THEN /\ hist' = Set(hist, p, [ hist[p] EXCEPT !.waited = TRUE ])
          /\ pc' = Set(pc, p, "loop_test")
          /\ retries' = Set(retries, p, retries[p] + 1)
     ELSE /\ pc' = Set(pc, p, "create_lock")
          /\ UNCHANGED << hist, retries >>
  /\ UNCHANGED << lock, terms, idx, result, update_token_script,
                  session, caller, exc, error, retval >>
  /\ UNCHANGED << input, output >>

\* Lines 179-180: sleep while the lock file is there.
WaitLock(p) ==
  /\ pc[p] = "wait_lock"
  /\ IF lock
     THEN /\ hist' = Set(hist, p, [ hist[p] EXCEPT !.waited = TRUE ])
          /\ UNCHANGED pc
     ELSE /\ pc' = Set(pc, p, "create_lock")
          /\ UNCHANGED hist
  /\ UNCHANGED << lock, terms, idx, result, retries, update_token_script,
                  session, caller, exc, error, retval >>
  /\ UNCHANGED << input, output >>

\* Line 181: create the lock file.
CreateLock(p) ==
  /\ pc[p] = "create_lock"
  /\ lock' = TRUE
  /\ pc' = Set(pc, p, "update_token")
  /\ exc' = Set(exc, p, None)
  /\ hist' = Set(hist, p, [ hist[p] EXCEPT !.created = TRUE,
                                           !.locksCreated = @ + 1 ])
  /\ UNCHANGED << terms, idx, result, retries, update_token_script, session,
                  caller, error, retval >>
  /\ UNCHANGED << input, output >>

\* _update_token, lines 200-217: the checks of the script path, then the
\* script is started.
UpdateToken(p) ==
  /\ pc[p] = "update_token"
  /\ IF update_token_script[p] = None \/ ~PathExists(update_token_script[p])
     THEN /\ exc' = Set(exc, p, "TokenUpdateScriptNotFoundError")
          /\ pc' = Set(pc, p, "finally")
          /\ UNCHANGED hist
     ELSE /\ pc' = Set(pc, p, "in_script")
          /\ hist' = Set(hist, p, [ hist[p] EXCEPT !.scriptRuns = @ + 1 ])
          /\ UNCHANGED exc
  /\ UNCHANGED << lock, terms, idx, result, retries, update_token_script,
                  session, caller, error, retval >>
  /\ UNCHANGED << input, output >>

\* Lines 213-226 and 184-185: the script exits; with exit code 0 the rc file
\* is read again and the new url and token are about to be returned.
ScriptExits(p) ==
  /\ pc[p] = "in_script"
  /\ \E returncode \in { 0, 1 } :
       IF returncode = 0
       THEN /\ session' = Set(session, p, session[p] + 1)
            /\ exc' = Set(exc, p, "return")
            /\ UNCHANGED hist
       ELSE /\ exc' = Set(exc, p, "TokenUpdateFailedError")
            /\ hist' = Set(hist, p, [ hist[p] EXCEPT !.nonzero = @ + 1 ])
            /\ UNCHANGED session
  /\ pc' = Set(pc, p, "finally")
  /\ UNCHANGED << lock, terms, idx, result, retries, update_token_script,
                  caller, error, retval >>
  /\ UNCHANGED << input, output >>

\* Lines 213-217: subprocess.run is given no timeout, so a script that does
\* not exit keeps the invocation in subprocess.run; TimeoutExpired is never
\* raised.
ScriptHangs(p) ==
  /\ pc[p] = "in_script"
  /\ pc' = Set(pc, p, "blocked")
  /\ UNCHANGED << lock, terms, idx, result, retries, update_token_script,
                  session, caller, exc, error, retval, hist >>
  /\ UNCHANGED << input, output >>

\* What follows the finally clause, lines 185-193: the return, the next
\* round of the loop after a caught error, or the error going up.
AfterFinally(p) ==
  /\ hist' = Set(hist, p, [ hist[p] EXCEPT !.created = FALSE ])
  /\ IF exc[p] = "return"
     THEN /\ pc' = Set(pc, p, AfterRefreshPc(caller[p]))
          /\ retries' = Set(retries, p, ReturnRetries(retries[p], caller[p]))
          /\ UNCHANGED error
     ELSE IF Caught(exc[p])
     THEN /\ pc' = Set(pc, p, "loop_test")
          /\ retries' = Set(retries, p, retries[p] + 1)
          /\ UNCHANGED error
     ELSE /\ pc' = Set(pc, p, "failed")
          /\ error' = Set(error, p, Surfaced(exc[p], caller[p]))
          /\ UNCHANGED retries

\* Line 189: is the lock file there?
FinallyCheck(p) ==
  /\ pc[p] = "finally"
  /\ IF lock
     THEN /\ pc' = Set(pc, p, "unlink")
          /\ UNCHANGED << retries, error, hist >>
     ELSE AfterFinally(p)
  /\ UNCHANGED << lock, terms, idx, result, update_token_script, session,
                  caller, exc, retval >>
  /\ UNCHANGED << input, output >>

\* The cleanup without the os.unlink call.
UnlinkKeepsFile(p) ==
  /\ pc[p] = "unlink"
  /\ UNCHANGED lock
  /\ AfterFinally(p)
  /\ UNCHANGED << terms, idx, result, update_token_script, session, caller,
                  exc, retval >>
  /\ UNCHANGED << input, output >>

\* Line 190: remove it; os.unlink raises FileNotFoundError when another
\* invocation removed the file since line 189.
Unlink(p) ==
  /\ pc[p] = "unlink"
  /\ IF lock
     THEN /\ lock' = FALSE
          /\ AfterFinally(p)
     ELSE /\ pc' = Set(pc, p, "failed")
          /\ error' = Set(error, p, Surfaced("FileNotFoundError", caller[p]))
          /\ hist' = Set(hist, p, [ hist[p] EXCEPT !.created = FALSE ])
          /\ UNCHANGED << lock, retries >>
  /\ UNCHANGED << terms, idx, result, update_token_script, session, caller,
                  exc, retval >>
  /\ UNCHANGED << input, output >>

\* Lines 118-122 and 147: the next term, or the return of the result.
ForTerm(p) ==
  /\ pc[p] = "for_term"
  /\ IF idx[p] < Len(terms[p])
     THEN /\ idx' = Set(idx, p, idx[p] + 1)
          /\ pc' = Set(pc, p, "while_test")
          /\ hist' = Set(hist, p, [ hist[p] EXCEPT !.termFetches = 0 ])
          /\ UNCHANGED retval
     ELSE /\ pc' = Set(pc, p, "done")
          /\ retval' = Set(retval, p, { result[p] })
          /\ UNCHANGED << idx, hist >>
  /\ UNCHANGED << lock, terms, result, retries, update_token_script, session,
                  caller, exc, error >>
  /\ UNCHANGED << input, output >>

\* Line 124, and lines 144-146 when the loop ends by its test.
WhileTest(p) ==
  /\ pc[p] = "while_test"
  /\ IF RetryLoopGuard(retries[p])
     THEN /\ pc' = Set(pc, p, "get_item")
          /\ UNCHANGED error
     ELSE /\ pc' = Set(pc, p, AfterWhilePc(retries[p]))
          /\ error' = Set(error, p, AfterWhileError(retries[p], error[p]))
  /\ UNCHANGED << lock, terms, idx, result, retries, update_token_script,
                  session, caller, exc, retval, hist >>
  /\ UNCHANGED << input, output >>

\* The outcome of a fetch as section 4.2 of the specification names it.
FetchOutcome(r) ==
  IF r.raised THEN "Malformed"
  ELSE IF r.status < 400 THEN "Success"
  ELSE IF r.status = 403 THEN "TokenRejected"
  ELSE "TransientFailure"

\* The new value put in front of the list.
AppendResultInFront(res, item) == << rstrip(item) >> \o res

\* result.append(item.rstrip()), line 130.
AppendResult(res, item) == Append(res, rstrip(item))

\* An unexpected status counted as a retry instead of raised.
DispositionRetriesUnexpected(r) ==
  IF r.raised THEN "raise"
  ELSE IF r.status < 400 THEN "break"
  ELSE IF r.status = 403 THEN "refresh"
  ELSE "retry"

\* What the try block of lines 125-142 does with the answer of _get_item:
\* "break" (lines 129-131), "refresh" (line 135), "raise" (line 270 or 137,
\* caught at line 139) or "retry" (falling through to line 142).
Disposition(r) ==
  IF r.raised THEN "raise"
  ELSE IF r.status < 400 THEN "break"
  ELSE IF r.status = 403 THEN "refresh"
  ELSE "raise"

\* Lines 126-142: one fetch of the current term and what run does with it.
GetItem(p) ==
  /\ pc[p] = "get_item"
  /\ \E status \in StatusCodes, body \in Vault(terms[p][idx[p]]) :
       LET r == get_item(status, body, terms[p][idx[p]].fieldname)
           d == Disposition(r)
           h == [ hist[p] EXCEPT
                    !.fetches = @ + 1,
                    !.termFetches = @ + 1,
                    !.refetches = IF hist[p].termFetches > 0 THEN @ + 1 ELSE @,
                    !.fetchedWith = @ \cup { session[p] },
                    !.lastOutcome = FetchOutcome(r),
                    !.raw = IF FetchOutcome(r) = "Success" THEN Append(@, r.item) ELSE @ ]
       IN  /\ hist' = Set(hist, p, h)
           /\ IF d = "break"
              THEN /\ result' = Set(result, p, AppendResult(result[p], r.item))
                   /\ pc' = Set(pc, p, AfterWhilePc(retries[p]))
                   /\ error' = Set(error, p, AfterWhileError(retries[p], error[p]))
                   /\ UNCHANGED << retries, caller, update_token_script, session >>
              ELSE IF d = "refresh" /\ ~CallRaisesTypeError(ArgsAtLine135)
              THEN /\ \E cfg \in Configs : Enter(p, cfg, 135)
                   /\ UNCHANGED << result, retries >>
              ELSE IF d = "retry"
              THEN /\ retries' = Set(retries, p, retries[p] + 1)
                   /\ pc' = Set(pc, p, "while_test")
                   /\ UNCHANGED << result, error, caller, update_token_script, session >>
              ELSE \* an exception in the try block: lines 139-141
                   /\ pc' = Set(pc, p, "failed")
                   /\ error' = Set(error, p, "AnsibleError: failed to retrieve")
                   /\ UNCHANGED << result, retries, caller, update_token_script, session >>
  /\ UNCHANGED << lock, terms, idx, exc, retval >>
  /\ UNCHANGED << input, output >>

Step(p) ==
  \/ RunBegin(p)
  \/ AuthCheck(p)
  \/ LoopTest(p)
  \/ WaitLock(p)
  \/ CreateLock(p)
  \/ UpdateToken(p)
  \/ ScriptExits(p)
  \/ ScriptHangs(p)
  \/ FinallyCheck(p)
  \/ Unlink(p)
  \/ ForTerm(p)
  \/ WhileTest(p)
  \/ GetItem(p)

Next == \E p \in Procs : Step(p)

\* A single invocation.
Spec == Init /\ [][Next]_vars

\* Concurrent invocations sharing the lock file.
\* Each is called with no term or with one.
ConcTermLists == { <<>>, << [objectid |-> "100", fieldname |-> "username"] >> }
InitConc == InitFor(Procs, ConcTermLists)
SpecConc == InitConc /\ [][Next]_vars

\* Concurrent invocations, started when the lock file may have been left
\* behind by a process that was killed between lines 181 and 190.
InitStale ==
  /\ lock \in BOOLEAN
  /\ InitRuns(Procs, ConcTermLists)
  /\ input = Nothing
  /\ output = Nothing

SpecStale == InitStale /\ [][Next]_vars

\* Concurrent invocations whose update script always exits, each of them
\* scheduled again and again while it can take a step.
StepReturning(p) ==
  \/ RunBegin(p)
  \/ AuthCheck(p)
  \/ LoopTest(p)
  \/ WaitLock(p)
  \/ CreateLock(p)
  \/ UpdateToken(p)
  \/ ScriptExits(p)
  \/ FinallyCheck(p)
  \/ Unlink(p)
  \/ ForTerm(p)
  \/ WhileTest(p)
  \/ GetItem(p)

NextReturning == \E p \in Procs : StepReturning(p)

SpecLive ==
  /\ InitConc
  /\ [][NextReturning]_vars
  /\ \A p \in Procs : WF_vars(StepReturning(p))

\* ------------------------------------- the functions on their own
\* The literals of STOREDSAFE_SKIP_VERIFY that switch verification off,
\* line 106.
SkipVerifyLiterals == { "1", "true", "True", "t" }

DefaultRcFile == "~/.storedsafe-client.rc"

\* run, lines 101-113: cabundle, skipverify and rc_file from the environment
\* e and the Ansible variables v.  Python's True, False and None are the
\* strings "True", "False" and "None".
run_config(e, v) ==
  [ cabundle   |-> PyOr(e.cabundle, v.cabundle),
    skipverify |-> IF e.skip_verify \in SkipVerifyLiterals
                   THEN "True" ELSE v.skip_verify,
    rc_file    |-> PyOr(PyOr(e.rc_file, v.rc_file), DefaultRcFile) ]

\* A line of the rc file: pre, key, ":" and value, with a newline or not.
\* class tells which characters the value is made of: "alnum" (letters and
\* digits), "host" (also - _ .) or "other"; also holds the words the line
\* contains besides its key.
Line(pre, key, value, class, nl, also) ==
  [ pre |-> pre, key |-> key, value |-> value, class |-> class, nl |-> nl,
    also |-> also ]

LineText(l) ==
  l.pre \o l.key \o ":" \o l.value \o (IF l.nl THEN "\n" ELSE "")

\* '"word" in line', lines 281 and 283.
Contains(l, word) == l.key = word \/ word \in l.also

\* re.sub('token:([a-zA-Z0-9]+)\n$', r'\1', line), line 282: the match is
\* replaced by its group, a line without a match is returned as it is.
SubToken(l) ==
  IF l.key = "token" /\ l.class = "alnum" /\ l.nl
  THEN l.pre \o l.value ELSE LineText(l)

\* re.sub('mysite:([-a-zA-Z0-9_.]+)\n$', r'\1', line), lines 284-285.
SubMysite(l) ==
  IF l.key = "mysite" /\ l.class \in { "alnum", "host" } /\ l.nl
  THEN l.pre \o l.value ELSE LineText(l)

\* The loop of lines 280-285 over the lines left, from (server, token).
RECURSIVE read_lines(_, _, _)
read_lines(lines, server, token) ==
  IF lines = <<>> THEN [ server |-> server, token |-> token ]
  ELSE LET l == Head(lines)
       IN  read_lines(Tail(lines),
                      IF Contains(l, "mysite") THEN SubMysite(l) ELSE server,
                      IF Contains(l, "token") THEN SubToken(l) ELSE token)

\* _read_rc, lines 275-286.
read_rc(file) ==
  IF file.exists THEN read_lines(file.lines, None, None)
  ELSE [ server |-> None, token |-> None ]

\* _get_url_and_token, lines 151-174, in environment e with Ansible
\* variables v and the rc file given.
resolve_from(e, v, file) ==
  LET rc == read_rc(file)
  IN  resolve(Cfg(e.server, v.server, e.token, rc.server, rc.token,
                  e.script, v.script))

\* ---- the inputs
RcLines ==
  { Line("", "mysite", "vault.example.com", "host", TRUE, {}),
    Line("", "mysite", "none", "alnum", TRUE, {}),
    Line("", "mysite", "bad host", "other", TRUE, {}),
    Line("", "mysite", "token.example.com", "host", TRUE, { "token" }),
    Line("", "token", "abc123", "alnum", TRUE, {}),
    Line("", "token", "none", "alnum", TRUE, {}),
    Line("", "token", "abc123", "alnum", FALSE, {}),
    Line("# ", "username", "bob", "alnum", TRUE, {}) }

MaxLines == 2          \* longest rc file

RcFiles ==
  { [ exists |-> FALSE, lines |-> <<>> ] }
  \cup { [ exists |-> TRUE, lines |-> ls ] : ls \in SeqsUpTo(RcLines, MaxLines) }

\* os.getenv: None when the variable is not set.
EnvStrings(value) == { None, "", value }
\* variables.get: None when the variable is not given.
VarStrings(value) == { None, value }

RunConfigInputs ==
  [ fn : { "run_config" },
    env : [ cabundle : EnvStrings("/env/ca.pem"),
            skip_verify : { None, "", "1", "true", "t", "0", "false" },
            rc_file : EnvStrings("/env/rc") ],
    vars : [ cabundle : VarStrings("/var/ca.pem"),
             skip_verify : { None, "True", "False" },
             rc_file : VarStrings("/var/rc") ] ]

ResolveInputs ==
  [ fn : { "resolve" },
    env : [ server : EnvStrings("env.example.com"),
            token : EnvStrings("envtok"),
            script : EnvStrings("/env/login.sh") ],
    vars : [ server : VarStrings("var.example.com"),
             script : VarStrings("/var/login.sh") ],
    file : RcFiles ]

GetItemInputs ==
  { [ fn |-> "get_item", status |-> st, term |-> t, body |-> b ] :
      st \in StatusCodes,
      t \in Terms,
      b \in UNION { Vault(u) : u \in Terms } }

InitPure ==
  /\ lock = FALSE
  /\ InitRuns({}, { <<>> })
  /\ \/ input \in RunConfigInputs
     \/ input \in ResolveInputs
     \/ input \in GetItemInputs
  /\ output = Nothing

runVars == << lock, pc, terms, idx, result, retries, update_token_script,
             session, caller, exc, error, retval, hist >>

\* run, lines 101-113, applied to the input.
ApplyRunConfig ==
  /\ input.fn = "run_config"
  /\ output = Nothing
  /\ output' = [ fn |-> "run_config", out |-> run_config(input.env, input.vars) ]
  /\ UNCHANGED << runVars, input >>

\* _get_url_and_token, lines 151-174, applied to the input.
ApplyResolve ==
  /\ input.fn = "resolve"
  /\ output = Nothing
  /\ output' = [ fn |-> "resolve",
                 out |-> resolve_from(input.env, input.vars, input.file) ]
  /\ UNCHANGED << runVars, input >>

\* _get_item, lines 245-273, applied to the input.
ApplyGetItem ==
  /\ input.fn = "get_item"
  /\ output = Nothing
  /\ output' = [ fn |-> "get_item",
                 out |-> get_item(input.status, input.body, input.term.fieldname) ]
  /\ UNCHANGED << runVars, input >>

NextPure == ApplyRunConfig \/ ApplyResolve \/ ApplyGetItem

\* The functions of the module applied to each input.
SpecPure == InitPure /\ [][NextPure]_vars

\* ---------------------------------------------------------- properties
\* The step in which invocation p sends GET /object and handles the answer.
Fetched(p) == pc[p] = "get_item" /\ hist'[p].fetches = hist[p].fetches + 1

\* C1: when a fetch is answered with 403 while retries < MAX_RETRIES, the
\* run does not fail at that point and stays at the same term: it goes on
\* to refresh the token and to fetch the term again.
C1_RejectedTokenIsRefreshed ==
  [][ \A p \in Procs :
        ( Fetched(p) /\ hist'[p].lastOutcome = "TokenRejected"
          /\ retries[p] < MAX_RETRIES )
        => ( pc'[p] # "failed" /\ error'[p] = None /\ idx'[p] = idx[p] ) ]_vars

\* C2: in every reachable state of a run the retry counter is at most
\* MAX_RETRIES, and the executions of the update script plus the fetches
\* that repeat a term are at most MAX_RETRIES in the whole run, however
\* many terms it has.
C2_RetryBudgetPerRun ==
  \A p \in Procs :
    /\ retries[p] <= MAX_RETRIES
    /\ hist[p].scriptRuns + hist[p].refetches <= MAX_RETRIES

\* The budget is used up to the last unit and the run is at its second term.
C2_Witness ==
  \E p \in Procs :
    /\ hist[p].scriptRuns = MAX_RETRIES
    /\ idx[p] = 2
    /\ hist[p].fetches = 2

\* Where an invocation is between creating the lock file and the end of
\* the cleanup of lines 188-190.
InAttempt == { "update_token", "in_script", "blocked", "finally", "unlink" }

\* C3: the lock file gives mutual exclusion: at no time are two invocations
\* executing the update script.
C3_MutualExclusion ==
  Cardinality({ p \in Procs : pc[p] \in { "in_script", "blocked" } }) <= 1

\* C4: a refresh attempt removes the lock file it created on every path out
\* of the attempt, so in a run on its own the lock file is there only while
\* the run is inside an attempt, and not when the run is done or has failed.
C4_LockRemovedAfterAttempt ==
  /\ lock => \E p \in Procs : pc[p] \in InAttempt
  /\ \A p \in Procs : hist[p].created => pc[p] \in InAttempt

\* A run that is done after a failed and a successful execution of the script.
C4_Witness ==
  \E p \in Procs :
    /\ pc[p] = "done"
    /\ hist[p].nonzero > 0
    /\ hist[p].scriptRuns > hist[p].nonzero
    /\ ~lock

C6_UnexpectedAnswerIsFatal ==
  [][ \A p \in Procs :
        /\ ( Fetched(p)
             /\ hist'[p].lastOutcome \in { "TransientFailure", "Malformed" } )
           => ( /\ pc'[p] = "failed"
                /\ retries'[p] = retries[p]
                /\ hist'[p].scriptRuns = hist[p].scriptRuns
                /\ retval'[p] = {} )
        /\ pc[p] = "failed"
           => ( pc'[p] = "failed" /\ hist'[p] = hist[p] /\ retries'[p] = retries[p] )
    ]_vars

\* A run that failed on the first of two terms with such an answer.
C6_Witness ==
  \E p \in Procs :
    /\ pc[p] = "failed"
    /\ hist[p].lastOutcome \in { "TransientFailure", "Malformed" }
    /\ idx[p] = 1
    /\ Len(terms[p]) = 2

\* t is s without its trailing whitespace.
IsRightTrimOf(t, s) ==
  /\ Len(t) <= Len(s)
  /\ SubSeq(s, 1, Len(t)) = t
  /\ t = <<>> \/ t[Len(t)] \notin Whitespace
  /\ \A i \in (Len(t) + 1)..Len(s) : s[i] \in Whitespace

\* The values the vault serves for a term.
Served(term) == { get_item(200, b, term.fieldname).item : b \in Vault(term) }

\* C7: a run that is done returned a list with one entry per term, entry i
\* being the right-trimmed value fetched for term i; a run that failed
\* returned nothing.
C7_AllOrNothingInOrder ==
  \A p \in Procs :
    /\ retval[p] # {} => pc[p] = "done"
    /\ pc[p] = "done" =>
         /\ retval[p] = { result[p] }
         /\ Len(result[p]) = Len(terms[p])
         /\ Len(hist[p].raw) = Len(terms[p])
         /\ \A i \in 1..Len(terms[p]) :
              /\ hist[p].raw[i] \in Served(terms[p][i])
              /\ IsRightTrimOf(result[p][i], hist[p].raw[i])

\* A run that returned the values of two different terms, the first trimmed.
C7_Witness ==
  \E p \in Procs :
    /\ pc[p] = "done"
    /\ Len(result[p]) = 2
    /\ terms[p][1] # terms[p][2]
    /\ result[p][1] # hist[p].raw[1]
    /\ result[p][1] # result[p][2]

\* C8: each execution of the script that ends with a nonzero exit code takes
\* one unit of the retry budget; when all MAX_RETRIES executions did, the run
\* ends with TokenUpdateFailedError, no GET /object sent, nothing returned.
C8_FailingScriptExhaustsBudget ==
  \A p \in Procs :
    /\ pc[p] \notin { "finally", "unlink" } => retries[p] = hist[p].nonzero
    /\ hist[p].nonzero <= MAX_RETRIES
    /\ ( hist[p].nonzero = MAX_RETRIES /\ pc[p] \notin { "finally", "unlink", "loop_test" } )
       => ( pc[p] = "failed" /\ error[p] = "TokenUpdateFailedError" )
    /\ error[p] = "TokenUpdateFailedError"
       => ( /\ hist[p].scriptRuns = MAX_RETRIES
            /\ hist[p].nonzero = MAX_RETRIES
            /\ hist[p].fetches = 0
            /\ retval[p] = {} )

C8_Witness ==
  \E p \in Procs :
    /\ pc[p] = "failed"
    /\ error[p] = "TokenUpdateFailedError"
    /\ hist[p].lastAuth = "not_ok"
    /\ hist[p].nonzero = MAX_RETRIES

\* The run has resolved no update script, or one that is not on disk.
NoScript(p) ==
  /\ pc[p] # "run"
  /\ update_token_script[p] = None \/ ~PathExists(update_token_script[p])

\* C9: after an auth check the server refused, a run without an update
\* script on disk ends with TokenUpdateScriptNotFoundError: the retry
\* counter stays 0, the script is never executed and nothing is fetched.
C9_MissingScriptIsFatal ==
  \A p \in Procs :
    ( NoScript(p) /\ hist[p].lastAuth = "not_ok" )
    => ( /\ retries[p] = 0
         /\ hist[p].scriptRuns = 0
         /\ hist[p].fetches = 0
         /\ pc[p] \in { "loop_test", "wait_lock", "create_lock", "update_token",
                        "finally", "unlink", "failed" }
         /\ pc[p] = "failed" => error[p] = "TokenUpdateScriptNotFoundError"
         /\ retval[p] = {} )

C9_Witness ==
  \E p \in Procs :
    /\ NoScript(p)
    /\ hist[p].lastAuth = "not_ok"
    /\ pc[p] = "failed"
    /\ error[p] = "TokenUpdateScriptNotFoundError"
    /\ ~lock

\* C10: an execution of the script that does not exit does not keep the
\* invocation in the attempt: it ends with TokenUpdateTimeoutError, which
\* the loop catches, so the run leaves the script for the cleanup.
C10_HangingScriptTimesOut ==
  [][ \A p \in Procs :
        ( pc[p] = "in_script" /\ pc'[p] # "in_script" )
        => ( pc'[p] = "finally" /\ exc'[p] # None ) ]_vars

C12_EnvironmentDecidesAlone ==
  /\ output.fn = "run_config" =>
       LET e == input.env
           out == output.out
       IN  /\ ~Falsy(e.cabundle) => out.cabundle = e.cabundle
           /\ ~Falsy(e.rc_file) => out.rc_file = e.rc_file
           /\ ~Falsy(e.skip_verify)
              => IF e.skip_verify \in SkipVerifyLiterals
                 THEN out.skipverify = "True"
                 ELSE out.skipverify \in { "False", None }
  /\ output.fn = "resolve" =>
       LET e == input.env
           out == output.out
       IN  /\ ~Falsy(e.server) => out.server = e.server
           /\ ~Falsy(e.script) => out.script = e.script

\* C12 amended: an environment variable set to a non-empty value is the
\* resolved server, cabundle, update script and rc file, whatever the
\* Ansible variable holds, and an empty one counts as not set; skip_verify
\* is True when the environment value is one of the literals of line 106
\* and is the Ansible variable's value otherwise.
C12_NonEmptyEnvironmentWins ==
  /\ output.fn = "run_config" =>
       LET e == input.env
           v == input.vars
           out == output.out
       IN  /\ out.cabundle = IF Falsy(e.cabundle) THEN v.cabundle ELSE e.cabundle
           /\ ~Falsy(e.rc_file) => out.rc_file = e.rc_file
           /\ ( Falsy(e.rc_file) /\ ~Falsy(v.rc_file) ) => out.rc_file = v.rc_file
           /\ out.skipverify = IF e.skip_verify \in SkipVerifyLiterals
                               THEN "True" ELSE v.skip_verify
  /\ output.fn = "resolve" =>
       LET e == input.env
           v == input.vars
           out == output.out
       IN  /\ ~Falsy(e.server) => ( out.error # "AnsibleError: address not set"
                                    /\ out.server = e.server )
           /\ out.script = IF Falsy(e.script) THEN v.script ELSE e.script

\* STOREDSAFE_SKIP_VERIFY=0 with a true storedsafe_skip_verify, and both
\* cabundle variables set.
C12_Witness ==
  /\ output.fn = "run_config"
  /\ input.env.skip_verify = "0"
  /\ input.vars.skip_verify = "True"
  /\ output.out.skipverify = "True"
  /\ input.vars.cabundle = "/var/ca.pem"
  /\ output.out.cabundle = "/env/ca.pem"

\* C13 as stated: the token is the STOREDSAFE_TOKEN value when that is set
\* and the token of the rc file otherwise, whatever gave the server.
C13_TokenResolvedPerField ==
  ( output.fn = "resolve" /\ output.out.error = None )
  => output.out.token =
       IF ~Falsy(input.env.token) THEN input.env.token
       ELSE read_rc(input.file).token

\* C13 amended: server and token are resolved together: with a server from
\* the environment or the Ansible variables the token is the STOREDSAFE_TOKEN
\* value and the rc file is not used; otherwise both the server and the
\* token are those of the rc file, which replaces a token of the environment.
C13_TokenFollowsServer ==
  ( output.fn = "resolve" /\ output.out.error = None )
  => LET given == PyOr(input.env.server, input.vars.server)
         rc == read_rc(input.file)
     IN  IF Falsy(given)
         THEN output.out.server = rc.server /\ output.out.token = rc.token
         ELSE output.out.server = given /\ output.out.token = input.env.token

\* A token of the environment replaced by the one of the rc file.
C13_Witness ==
  /\ output.fn = "resolve"
  /\ output.out.error = None
  /\ input.env.token = "envtok"
  /\ output.out.token = "abc123"
  /\ output.out.server = "vault.example.com"

\* The rc files whose only line with mysite is "mysite:none".
SaysMysiteNone(file) ==
  /\ file.exists
  /\ \E i \in 1..Len(file.lines) : LineText(file.lines[i]) = "mysite:none\n"
  /\ \A i \in 1..Len(file.lines) :
       Contains(file.lines[i], "mysite") => LineText(file.lines[i]) = "mysite:none\n"

\* C14: with the server left to an rc file that says mysite:none, no server
\* is resolved and the address-not-set error is raised.
C14_MysiteNoneIsAbsent ==
  ( /\ output.fn = "resolve"
    /\ Falsy(PyOr(input.env.server, input.vars.server))
    /\ SaysMysiteNone(input.file) )
  => ( /\ output.out.error = "AnsibleError: address not set"
       /\ output.out.server = None )

\* C15: for the field "download" the value comes from FILEDATA alone: a
\* successful answer without FILEDATA, or with an empty one, is malformed
\* whatever the field maps hold.
C15_DownloadReadsOnlyFiledata ==
  ( /\ output.fn = "get_item"
    /\ input.term.fieldname = "download"
    /\ input.status < 400 )
  => IF input.body.filedata = {} \/ input.body.filedata = { "" }
     THEN output.out.raised
     ELSE ~output.out.raised
          /\ output.out.item = b64decode(TheOne(input.body.filedata))

\* The lock file is there and no invocation is between its creation and its
\* removal: the file was left behind.
Stale == lock /\ \A p \in Procs : pc[p] \notin { "create_lock" } \cup InAttempt

\* C16: the wait for the lock file is unbounded and is not a counted retry:
\* an invocation that finds the lock file stays at the wait with its retry
\* counter unchanged, a lock file left behind is never removed, and with it
\* an invocation whose auth check failed reaches neither done nor failed.
C16_LockWaitIsUnboundedAndUncounted ==
  /\ [][ \A p \in Procs :
           ( pc[p] = "wait_lock" /\ lock )
           => ( pc'[p] = "wait_lock" /\ retries'[p] = retries[p] ) ]_vars
  /\ [][ Stale => Stale' ]_vars
  /\ [] ( Stale => \A p \in Procs :
                     hist[p].lastAuth = "not_ok"
                     => ( /\ pc[p] \in { "loop_test", "wait_lock" }
                          /\ retries[p] = 0 ) )

\* An invocation whose auth check failed has slept at a lock file left behind.
C16_Witness ==
  /\ Stale
  /\ \E p \in Procs :
       /\ hist[p].lastAuth = "not_ok"
       /\ pc[p] = "wait_lock"
       /\ hist[p].waited

\* C17 as stated: the check of the script path comes before the lock file:
\* an invocation without an update script on disk never sleeps waiting for
\* the lock file and never creates it.
C17_ScriptCheckBeforeLock ==
  \A p \in Procs :
    NoScript(p) => ( ~hist[p].waited /\ hist[p].locksCreated = 0 )

\* C17 amended: the check of the script path comes after the lock file: an
\* invocation checks the path only once it has waited for the lock file to
\* be gone and has created it, and TokenUpdateScriptNotFoundError ends the
\* run after exactly one creation of the lock file, the cleanup done and the
\* script never executed.
C17_ScriptCheckAfterLock ==
  \A p \in Procs :
    /\ pc[p] = "update_token" => ( hist[p].created /\ hist[p].locksCreated > 0 )
    /\ error[p] = "TokenUpdateScriptNotFoundError"
       => ( /\ pc[p] = "failed"
            /\ hist[p].locksCreated = 1
            /\ ~hist[p].created
            /\ hist[p].scriptRuns = 0 )

\* An invocation without an update script that slept at the lock file of
\* another one, created the file and failed.
C17_Witness ==
  \E p \in Procs :
    /\ NoScript(p)
    /\ error[p] = "TokenUpdateScriptNotFoundError"
    /\ hist[p].waited
    /\ hist[p].locksCreated = 1

\* C18: with every request and every execution of the update script
\* returning and no lock file left behind, every invocation ends, done or
\* failed.
C18_EveryInvocationEnds ==
  \A p \in Procs : <>( pc[p] \in { "done", "failed" } )

\* Both invocations have ended, one of them done after sleeping at the lock
\* file of the other and after a failed execution of the script.
C18_Witness ==
  /\ \A p \in Procs : pc[p] \in { "done", "failed" }
  /\ \E p \in Procs :
       /\ pc[p] = "done"
       /\ hist[p].waited
       /\ retries[p] > 0

\* C19: the lock file is removed only by the invocation that created it: it
\* stays in place for as long as an invocation that created it is executing
\* the update script.
C19_LockStaysWhileCreatorRuns ==
  \A p \in Procs :
    ( pc[p] \in { "in_script", "blocked" } /\ hist[p].created ) => lock

====
